---- MODULE Spec2Model ----
(***************************************************************************)
(* Model of the recording post-processing pipeline of                      *)
(* src/process_recording.py (split_final_video and everything it calls)    *)
(* and of the subprocess executor of src/utils/subprocess_utils.py.        *)
(*                                                                         *)
(* One run of split_final_video is a sequential program; pc is its         *)
(* position.  Exceptions are resolved where they are raised: the call      *)
(* structure is static, so every raise site knows the guard               *)
(* (execute_if_not_exist) that encloses it.                                *)
(***************************************************************************)
EXTENDS Integers, Sequences, FiniteSets, TLC

\* ------------------------------------------------------------------ bounds
MaxInitial == 2
MaxSegment == 2
MaxExtra == 1
MaxDuration == 6
MaxSteadyParts == 3
MaxIgnore == 1
MaxFragDuration == 2
MaxFrags == 1

\* ------------------------------------------------------------ configuration
\* Split windows of RawConfig (initial_segment_length, segment_length,
\* segment_extra): a small grid, and the defaults 14400 / 3600 / 3.
SplitConfigs ==
    { <<i, s, o>> : i \in 1..MaxInitial, s \in 1..MaxSegment, o \in 0..MaxExtra }
        \cup { <<14400, 3600, 3>> }

\* danmaku_offset is annotated float, its default -3 is an int; a config file
\* can give either.
OffsetKinds == {"int", "float"}

Configs ==
    [ add_danmaku : BOOLEAN,
      split : BOOLEAN,
      danmaku_offset : OffsetKinds,
      ignore_video_length : 0..MaxIgnore,
      initial_segment_length : { c[1] : c \in SplitConfigs },
      segment_length : { c[2] : c \in SplitConfigs },
      segment_extra : { c[3] : c \in SplitConfigs } ]

\* Mutant: the final video is the merged video whatever the danmaku toggle.
FinalVideo_Merged(add_danmaku) == "merged_video"

\* Config.__init__: final_video is video_with_danmaku if add_danmaku else
\* merged_video.
FinalVideo(add_danmaku) == IF add_danmaku THEN "video_with_danmaku" ELSE "merged_video"

\* The "directory" key a config file may give, and the dir argument of the
\* command line (a required positional).
JsonDirs == {".", "json_dir"}
CliDirs == {"cli_dir"}

\* RawConfig(): the defaults of lines 18-35.
RawDefaults ==
    [ directory |-> ".",
      add_danmaku |-> FALSE,
      split |-> TRUE,
      danmaku_offset |-> "int",
      ignore_video_length |-> 0,
      initial_segment_length |-> 14400,
      segment_length |-> 3600,
      segment_extra |-> 3,
      xml_file |-> "danmaku.xml",
      ass_file |-> "danmaku.ass",
      merged_video |-> "merged.flv",
      video_with_danmaku |-> "video_with_danmaku.flv",
      temp_dir |-> "temp" ]

\* read_config_file: every key of the file overwrites the attribute of that
\* name.
ReadConfigFile(raw, json, dir) ==
    [ raw EXCEPT !.directory = dir,
                 !.add_danmaku = json.add_danmaku,
                 !.split = json.split,
                 !.danmaku_offset = json.danmaku_offset,
                 !.ignore_video_length = json.ignore_video_length,
                 !.initial_segment_length = json.initial_segment_length,
                 !.segment_length = json.segment_length,
                 !.segment_extra = json.segment_extra ]

\* Path.joinpath: a path is the directory and the name in it.
JoinPath(d, name) == <<d, name>>

\* Config.__init__, lines 39-48: the raw attributes, the paths resolved
\* against the directory, and final_video chosen by add_danmaku.
Config(raw) ==
    LET d == raw.directory
        merged == JoinPath(d, raw.merged_video)
        danmaku == JoinPath(d, raw.video_with_danmaku)
    IN  [ directory |-> d,
          add_danmaku |-> raw.add_danmaku,
          split |-> raw.split,
          danmaku_offset |-> raw.danmaku_offset,
          ignore_video_length |-> raw.ignore_video_length,
          initial_segment_length |-> raw.initial_segment_length,
          segment_length |-> raw.segment_length,
          segment_extra |-> raw.segment_extra,
          xml_file |-> JoinPath(d, raw.xml_file),
          ass_file |-> JoinPath(d, raw.ass_file),
          merged_video |-> merged,
          video_with_danmaku |-> danmaku,
          final_video |-> IF FinalVideo(raw.add_danmaku) = "video_with_danmaku"
                          THEN danmaku ELSE merged,
          temp_dir |-> JoinPath(d, raw.temp_dir) ]

\* Artifacts that may be on disk before a run.
Artifacts == {"merged_video", "xml_file", "ass_file", "video_with_danmaku"}

\* Part files an earlier run may have left in the directory.
OldParts == { {}, {1} }

\* Durations the probe of the final video may return.
Durations == (1..MaxDuration) \cup {14403, 18000, 18002}

\* Directory contents: a list of fragments, each with its probed duration.
RECURSIVE SeqsUpTo(_, _)
SeqsUpTo(S, n) ==
    IF n = 0 THEN { <<>> }
    ELSE LET shorter == SeqsUpTo(S, n - 1)
         IN  shorter \cup { Append(q, x) : q \in { r \in shorter : Len(r) = n - 1 }, x \in S }

FragmentInputs == SeqsUpTo(0..MaxFragDuration, MaxFrags) \cup { <<0, 1, 0, 1, 0>> }

\* ------------------------------------------------------- subprocess executor
\* An argument is modelled by its Python type.
\* run_subprocess, lines 6-8: only a float is converted to text.
Stringify(a) == IF a = "float" THEN "str" ELSE a

Converted(args) == [ i \in DOMAIN args |-> Stringify(args[i]) ]

\* line 10: " ".join(args) raises TypeError unless every item is a str.
EchoRaises(args, echo) ==
    echo /\ \E i \in DOMAIN args : Converted(args)[i] # "str"

\* line 12: subprocess.run accepts str and path-like items, raises TypeError
\* for any other.
SpawnRaises(args) ==
    \E i \in DOMAIN args : Converted(args)[i] \notin {"str", "path"}

\* The external tool is started iff neither of the above raised.
Invoked(args, echo) == ~EchoRaises(args, echo) /\ ~SpawnRaises(args)

\* Mutant: the return code is not checked.
OnReturnCode_Unchecked(rc) == "returned"

\* lines 13-20: check_returncode; a non-zero status ends in exit(1).
OnReturnCode(rc) == IF rc = 0 THEN "returned" ELSE "exit"

\* run_subprocess as a whole: "TypeError" (propagates to the caller),
\* "returned" (stdout as text) or "exit" (SystemExit(1)).
RunSubprocess(args, echo, rc) ==
    IF ~Invoked(args, echo) THEN "TypeError" ELSE OnReturnCode(rc)

\* An external tool fails when one of its input files is missing, and may
\* fail anyway.
ExitCodes(inputs, disk) == IF inputs \subseteq disk THEN {0, 1} ELSE {1}

\* log_flags of utils.config: text flags.
LogFlags == <<"str", "str">>

\* merge_videos, lines 86-89.
ConcatArgs ==
    <<"str", "str", "str", "str", "str", "str", "str", "str", "path", "str", "str", "path">>

\* create_ass_danmaku, lines 69-71.
Danmaku2AssArgs ==
    <<"str", "str", "str", "path", "str", "str", "str", "str", "str", "str",
      "str", "str", "str", "str", "str", "str", "str", "str", "path">>

\* create_ass_danmaku, lines 73-74.
OffsetArgs(offset) ==
    <<"str">> \o LogFlags \o <<"str", offset, "str", "path", "str", "str", "path">>

\* add_danmaku_to_video, lines 112-116.
BurnArgs ==
    <<"str">> \o LogFlags \o <<"str", "path", "str", "str", "str", "str", "str", "str", "path">>

\* clip_section hands the executor a text-only vector.
ClipArgs == <<"str", "str", "str", "str", "str", "str", "str", "str">>

\* ---------------------------------------------------------- idempotency guard
\* execute_if_not_exist: the producer is skipped iff the artifact exists.
GuardSkips(path, disk) == path \in disk

\* execute_if_not_exist when its producer raised: exit_if_fail terminates the
\* process, otherwise False is returned to the caller.
OnProducerRaise(exit_if_fail) == IF exit_if_fail THEN "exit" ELSE "false"

\* ------------------------------------------------------------- segment filter
\* Mutant: a fragment exactly as long as the threshold is dropped.
Keep_Gt(d, m) == d > m

\* merge_videos, line 82.
Keep(d, m) == d >= m

\* ------------------------------------------------------------------- splitter
\* split_final_video, line 134.
FirstSegmentEnd(i, o) == i + o

\* Mutant: a first boundary equal to the duration no longer stops the split.
NoSplitNeeded_Gt(end, d) == end > d

\* line 135.
NoSplitNeeded(end, d) == end >= d

\* Mutant: the loop stops one second early.
LoopContinues_Early(start, d) == start + 1 < d

\* Mutant: the loop runs on when the start has reached the duration.
LoopContinues_Le(start, d) == start <= d

\* line 140.
LoopContinues(start, d) == start < d

\* Mutant: the running start is not advanced.
NextStart_Stuck(start, s) == start

\* line 145.
NextStart(start, s) == start + s

\* Mutant: the overlap is left out of a steady part's end.
SegmentEnd_NoExtra(next, o) == next

\* line 146.
SegmentEnd(next, o) == next + o

\* ---------------------------------------------------------------------- state
VARIABLES
    cfg,              \* the finalized Config
    fs0,              \* the files on disk before the run
    parts0,           \* the part files on disk before the run
    fs,               \* the files on disk
    pc,               \* position in the program
    status,           \* "running", "ok", "exit1" (exit(1)) or "uncaught"
    error,            \* the exception that ended the process, or "none"
    swallowed,        \* exceptions a guard caught and turned into False
    calls,            \* external tool invocations: [tool, rc, returned]
    runs,             \* the calls of run_subprocess: [tool, echo, argv, outcome, flipped]
    guards,           \* what each guard found: "none", "present", "absent"
    producers,        \* how often each guarded producer was entered
    files,            \* merge_videos: the fragments found (their durations)
    filtered,         \* merge_videos: indices of the fragments kept
    smartMerge,       \* the lists handed to smart_merge
    success,          \* add_danmaku_to_video: the guard's result
    probed,           \* get_video_duration(final_video): "no", "exists", "missing"
    duration,
    segment_start,
    next_start,
    segment_end,
    segment_number,
    clips,            \* the calls of clip_section: [part, start, end]
    parts,            \* the part files this run wrote: n stands for part<n>.flv
    total             \* the number of parts reported, or -1

vars == <<cfg, fs0, parts0, fs, pc, status, error, swallowed, calls, runs, guards, producers,
          files, filtered, smartMerge, success, probed, duration, segment_start,
          next_start, segment_end, segment_number, clips, parts, total>>

mergeVars == <<files, filtered, smartMerge>>
splitVars == <<probed, duration, segment_start, next_start, segment_end,
               segment_number, clips, parts, total>>
guardVars == <<guards, producers>>
execVars == <<calls, runs>>

GuardSites == {"final", "merged", "ass", "xml"}

\* The artifact config.final_video names.
final_video ==
    IF cfg.final_video = cfg.video_with_danmaku THEN "video_with_danmaku" ELSE "merged_video"

\* The state when main is entered: config is the module-level
\* Config(RawConfig()) of lines 51-52.  Part files are there only beside a
\* final video they were cut from.
Init ==
    /\ cfg = Config(RawDefaults)
    /\ fs0 \in SUBSET Artifacts
    /\ parts0 \in OldParts
    /\ parts0 # {} => fs0 \cap {"merged_video", "video_with_danmaku"} # {}
    /\ fs = fs0
    /\ pc = "main"
    /\ status = "running"
    /\ error = "none"
    /\ swallowed = <<>>
    /\ calls = <<>>
    /\ runs = <<>>
    /\ guards = [ g \in GuardSites |-> "none" ]
    /\ producers = [ g \in GuardSites |-> 0 ]
    /\ files = <<>>
    /\ filtered = <<>>
    /\ smartMerge = <<>>
    /\ success = TRUE
    /\ probed = "no"
    /\ duration = 0
    /\ segment_start = 0
    /\ next_start = 0
    /\ segment_end = 0
    /\ segment_number = 0
    /\ clips = <<>>
    /\ parts = {}
    /\ total = -1

\* The process ends: normally ("ok"), by exit(1) or by an uncaught exception.
Terminate(st, err) ==
    /\ pc' = "halt"
    /\ status' = st
    /\ error' = err

Continue(next) ==
    /\ pc' = next
    /\ UNCHANGED <<status, error>>

\* An exception reaches a guard: the process exits (exit_if_fail) or the
\* guard returns False and the caller goes on at `next`.
Caught(exit_if_fail, exc, next) ==
    IF OnProducerRaise(exit_if_fail) = "exit"
    THEN Terminate("exit1", exc) /\ UNCHANGED swallowed
    ELSE Continue(next) /\ swallowed' = Append(swallowed, exc)

Saw(site, present) ==
    guards' = [guards EXCEPT ![site] = IF present THEN "present" ELSE "absent"]

Enter(site) == producers' = [producers EXCEPT ![site] = @ + 1]

\* The executor's effect on the log of external invocations: the tool runs iff
\* run_subprocess got as far as subprocess.run.
Executor(tool, args, echo, rc) ==
    /\ calls' = IF Invoked(args, echo)
                THEN Append(calls, [tool |-> tool, rc |-> rc,
                                    returned |-> RunSubprocess(args, echo, rc) = "returned"])
                ELSE calls
    /\ runs' = Append(runs, [tool |-> tool, echo |-> echo, argv |-> Converted(args),
                             outcome |-> RunSubprocess(args, echo, rc),
                             flipped |-> RunSubprocess(args, ~echo, rc)])

\* main, lines 157-170: the config file is read into raw_config, the dir
\* argument overrides its directory, config is rebuilt from it, and the
\* directory must exist; then split_final_video runs.
Main ==
    /\ pc = "main"
    /\ \E json \in { c \in Configs :
                       <<c.initial_segment_length, c.segment_length, c.segment_extra>>
                           \in SplitConfigs },
          jsonDir \in JsonDirs, dir \in CliDirs, exists \in BOOLEAN :
          /\ cfg' = Config([ReadConfigFile(RawDefaults, json, jsonDir) EXCEPT !.directory = dir])
          /\ IF exists
             THEN Continue("sfv_guard")
             ELSE fs0 = {} /\ parts0 = {} /\ Terminate("uncaught", "AssertionError")
    /\ UNCHANGED <<fs0, parts0, fs, swallowed, execVars, guardVars, mergeVars, success,
                   splitVars>>

\* ------------------------------------------------- create_final_video, merge
\* split_final_video, line 127: execute_if_not_exist(final_video,
\* create_final_video); the result is not looked at.
SplitFinalVideoGuard ==
    /\ pc = "sfv_guard"
    /\ Saw("final", final_video \in fs)
    /\ Continue(IF GuardSkips(final_video, fs) THEN "sfv_split" ELSE "cfv_merge_guard")
    /\ UNCHANGED <<cfg, fs0, parts0, fs, swallowed, execVars, producers, mergeVars, success, splitVars>>

\* Mutant: create_final_video calls merge_videos without the guard.
CreateFinalVideoMergeUnguarded ==
    /\ pc = "cfv_merge_guard"
    /\ Enter("final")
    /\ Saw("merged", "merged_video" \in fs)
    /\ Continue("mv_glob")
    /\ UNCHANGED <<cfg, fs0, parts0, fs, swallowed, execVars, mergeVars, success, splitVars>>

\* create_final_video, line 120: execute_if_not_exist(merged_video,
\* merge_videos, exit_if_fail=True).
CreateFinalVideoMergeGuard ==
    /\ pc = "cfv_merge_guard"
    /\ Enter("final")
    /\ Saw("merged", "merged_video" \in fs)
    /\ Continue(IF GuardSkips("merged_video", fs) THEN "cfv_danmaku" ELSE "mv_glob")
    /\ UNCHANGED <<cfg, fs0, parts0, fs, swallowed, execVars, mergeVars, success, splitVars>>

\* merge_videos, lines 78-80: glob, and the assertion that something was found.
MergeVideosGlob ==
    /\ pc = "mv_glob"
    /\ Enter("merged")
    /\ \E found \in FragmentInputs :
          /\ files' = found
          /\ IF Len(found) > 0
             THEN Continue("mv_filter") /\ UNCHANGED swallowed
             ELSE Caught(TRUE, "AssertionError", "cfv_danmaku")
    /\ UNCHANGED <<cfg, fs0, parts0, fs, execVars, guards, filtered, smartMerge, success, splitVars>>

\* The indices of the fragments the filter keeps, in the order found.
RECURSIVE KeptFrom(_, _, _)
KeptFrom(found, m, k) ==
    IF k > Len(found) THEN <<>>
    ELSE (IF Keep(found[k], m) THEN <<k>> ELSE <<>>) \o KeptFrom(found, m, k + 1)

\* merge_videos, lines 81-83: the duration filter.
MergeVideosFilter ==
    /\ pc = "mv_filter"
    /\ filtered' = KeptFrom(files, cfg.ignore_video_length, 1)
    /\ Continue("mv_smart_merge")
    /\ UNCHANGED <<cfg, fs0, parts0, fs, swallowed, execVars, guardVars, files, smartMerge, success,
                   splitVars>>

\* merge_videos, lines 84-85: smart_merge(files, temp_dir, file_list) writes
\* the manifest.
MergeVideosSmartMerge ==
    /\ pc = "mv_smart_merge"
    /\ smartMerge' = Append(smartMerge, filtered)
    /\ fs' = fs \cup {"file_list"}
    /\ Continue("mv_concat")
    /\ UNCHANGED <<cfg, fs0, parts0, swallowed, execVars, guardVars, files, filtered, success, splitVars>>

\* merge_videos, lines 86-89: the concat tool, with echo=True.
MergeVideosConcat ==
    /\ pc = "mv_concat"
    /\ \E rc \in ExitCodes({"file_list"}, fs) :
          LET outcome == RunSubprocess(ConcatArgs, TRUE, rc) IN
          /\ Executor("concat", ConcatArgs, TRUE, rc)
          /\ fs' = IF outcome = "returned" THEN fs \cup {"merged_video"} ELSE fs
          /\ CASE outcome = "returned" -> Continue("cfv_danmaku") /\ UNCHANGED swallowed
               [] outcome = "exit" -> Terminate("exit1", "CalledProcessError") /\ UNCHANGED swallowed
               [] OTHER -> Caught(TRUE, "TypeError", "cfv_danmaku")
    /\ UNCHANGED <<cfg, fs0, parts0, guardVars, mergeVars, success, splitVars>>

\* assert_file_exists: raises unless the file is there.
AssertFileExists(path, disk) == path \in disk

\* create_final_video, lines 121-123: with danmaku, on to
\* add_danmaku_to_video; without, the closing assertion and the return to the
\* guard of line 127.
CreateFinalVideoDanmaku ==
    /\ pc = "cfv_danmaku"
    /\ IF cfg.add_danmaku
       THEN Continue("adv_assert") /\ UNCHANGED swallowed
       ELSE IF AssertFileExists(final_video, fs)
            THEN Continue("sfv_split") /\ UNCHANGED swallowed
            ELSE Caught(FALSE, "AssertionError", "sfv_split")
    /\ UNCHANGED <<cfg, fs0, parts0, fs, execVars, guardVars, mergeVars, success, splitVars>>

\* ------------------------------------------------------------ danmaku overlay
\* add_danmaku_to_video, line 96: assert_file_exists(merged_video).
AddDanmakuAssert ==
    /\ pc = "adv_assert"
    /\ IF AssertFileExists("merged_video", fs)
       THEN Continue("adv_ass_guard") /\ UNCHANGED swallowed
       ELSE Caught(FALSE, "AssertionError", "sfv_split")
    /\ UNCHANGED <<cfg, fs0, parts0, fs, execVars, guardVars, mergeVars, success, splitVars>>

\* add_danmaku_to_video, lines 97-100: execute_if_not_exist(ass_file,
\* create_ass_danmaku).
AddDanmakuAssGuard ==
    /\ pc = "adv_ass_guard"
    /\ Saw("ass", "ass_file" \in fs)
    /\ success' = TRUE
    /\ Continue(IF GuardSkips("ass_file", fs) THEN "adv_success" ELSE "cad_xml_guard")
    /\ UNCHANGED <<cfg, fs0, parts0, fs, swallowed, execVars, producers, mergeVars, splitVars>>

\* Mutant: create_ass_danmaku applies the offset before the converter has run.
CreateAssXmlGuard_OffsetFirst ==
    /\ pc = "cad_xml_guard"
    /\ Enter("ass")
    /\ Saw("xml", "xml_file" \in fs)
    /\ Continue(IF GuardSkips("xml_file", fs) THEN "cad_offset" ELSE "cxd")
    /\ UNCHANGED <<cfg, fs0, parts0, fs, swallowed, execVars, mergeVars, success, splitVars>>

\* create_ass_danmaku, line 64: execute_if_not_exist(xml_file,
\* create_xml_danmaku).
CreateAssXmlGuard ==
    /\ pc = "cad_xml_guard"
    /\ Enter("ass")
    /\ Saw("xml", "xml_file" \in fs)
    /\ Continue(IF GuardSkips("xml_file", fs) THEN "cad_convert" ELSE "cxd")
    /\ UNCHANGED <<cfg, fs0, parts0, fs, swallowed, execVars, mergeVars, success, splitVars>>

\* create_xml_danmaku, lines 59-60: always raises NotImplementedError; its
\* guard has no exit_if_fail.
CreateXmlDanmaku ==
    /\ pc = "cxd"
    /\ Enter("xml")
    /\ Caught(FALSE, "NotImplementedError", "cad_warn")
    /\ UNCHANGED <<cfg, fs0, parts0, fs, execVars, guards, mergeVars, success, splitVars>>

\* create_ass_danmaku, lines 65-67: a warning and a plain return, so the
\* guard of line 100 sees its producer return normally: success stays True.
CreateAssWarn ==
    /\ pc = "cad_warn"
    /\ Continue("adv_success")
    /\ UNCHANGED <<cfg, fs0, parts0, fs, swallowed, execVars, guardVars, mergeVars, success, splitVars>>

\* create_ass_danmaku, lines 68-71: the converter writes temp_danmaku.ass.
CreateAssConvert ==
    /\ pc = "cad_convert"
    /\ \E rc \in ExitCodes({"xml_file"}, fs) :
          LET outcome == RunSubprocess(Danmaku2AssArgs, FALSE, rc) IN
          /\ Executor("danmaku2ass", Danmaku2AssArgs, FALSE, rc)
          /\ fs' = IF outcome = "returned" THEN fs \cup {"temp_ass"} ELSE fs
          /\ CASE outcome = "returned" ->
                    Continue("cad_offset") /\ UNCHANGED <<swallowed, success>>
               [] outcome = "exit" ->
                    Terminate("exit1", "CalledProcessError") /\ UNCHANGED <<swallowed, success>>
               [] OTHER ->
                    Caught(FALSE, "TypeError", "adv_success") /\ success' = FALSE
    /\ UNCHANGED <<cfg, fs0, parts0, guardVars, mergeVars, splitVars>>

\* create_ass_danmaku, lines 73-74: ffmpeg -itsoffset danmaku_offset writes
\* ass_file; an exception here makes the guard of line 100 return False.
CreateAssOffset ==
    /\ pc = "cad_offset"
    /\ \E rc \in ExitCodes({"temp_ass"}, fs) :
          LET args == OffsetArgs(cfg.danmaku_offset)
              outcome == RunSubprocess(args, FALSE, rc) IN
          /\ Executor("offset", args, FALSE, rc)
          /\ fs' = IF outcome = "returned" THEN fs \cup {"ass_file"} ELSE fs
          /\ CASE outcome = "returned" ->
                    Continue("adv_success") /\ UNCHANGED <<swallowed, success>>
               [] outcome = "exit" ->
                    Terminate("exit1", "CalledProcessError") /\ UNCHANGED <<swallowed, success>>
               [] OTHER ->
                    Caught(FALSE, "TypeError", "adv_success") /\ success' = FALSE
    /\ UNCHANGED <<cfg, fs0, parts0, guardVars, mergeVars, splitVars>>

\* add_danmaku_to_video, lines 101-103: raises when the guard reported
\* failure; the exception ends create_final_video and is caught at line 127.
AddDanmakuSuccess ==
    /\ pc = "adv_success"
    /\ IF success
       THEN Continue("adv_burn") /\ UNCHANGED swallowed
       ELSE Caught(FALSE, "FileNotFoundError", "sfv_split")
    /\ UNCHANGED <<cfg, fs0, parts0, fs, execVars, guardVars, mergeVars, success, splitVars>>

\* add_danmaku_to_video, lines 104-116: the burn-in, with echo=True; when it
\* returns, create_final_video ends with the assertion of line 123.
AddDanmakuBurn ==
    /\ pc = "adv_burn"
    /\ \E rc \in ExitCodes({"merged_video", "ass_file"}, fs) :
          LET outcome == RunSubprocess(BurnArgs, TRUE, rc) IN
          /\ Executor("burn", BurnArgs, TRUE, rc)
          /\ fs' = IF outcome = "returned" THEN fs \cup {"video_with_danmaku"} ELSE fs
          /\ CASE outcome = "returned" /\ AssertFileExists(final_video, fs') ->
                    Continue("sfv_split") /\ UNCHANGED swallowed
               [] outcome = "returned" /\ ~AssertFileExists(final_video, fs') ->
                    Caught(FALSE, "AssertionError", "sfv_split")
               [] outcome = "exit" ->
                    Terminate("exit1", "CalledProcessError") /\ UNCHANGED swallowed
               [] OTHER -> Caught(FALSE, "TypeError", "sfv_split")
    /\ UNCHANGED <<cfg, fs0, parts0, guardVars, mergeVars, success, splitVars>>

\* ------------------------------------------------------------------- splitter
\* split_final_video, lines 128-130.
SplitCheck ==
    /\ pc = "sfv_split"
    /\ IF cfg.split THEN Continue("sfv_probe") ELSE Terminate("ok", "none")
    /\ UNCHANGED <<cfg, fs0, parts0, fs, swallowed, execVars, guardVars, mergeVars, success, splitVars>>

\* split_final_video, lines 131-138: probe the final video, set up the first
\* segment, stop if it covers the whole video.  Probing a file that is not
\* there fails and nothing catches it.
SplitProbe ==
    /\ pc = "sfv_probe"
    /\ IF final_video \notin fs
       THEN /\ probed' = "missing"
            /\ Terminate("uncaught", "ProbeError")
            /\ UNCHANGED <<duration, segment_start, next_start, segment_end, segment_number>>
       ELSE \E d \in Durations :
            /\ d - cfg.initial_segment_length <= MaxSteadyParts * cfg.segment_length
            /\ probed' = "exists"
            /\ duration' = d
            /\ segment_start' = 0
            /\ next_start' = cfg.initial_segment_length
            /\ segment_end' = FirstSegmentEnd(cfg.initial_segment_length, cfg.segment_extra)
            /\ IF NoSplitNeeded(segment_end', d)
               THEN Terminate("ok", "none") /\ segment_number' = segment_number
               ELSE Continue("sfv_loop") /\ segment_number' = 1
    /\ UNCHANGED <<cfg, fs0, parts0, fs, swallowed, execVars, guardVars, mergeVars, success, clips, parts,
                   total>>

\* split_final_video, lines 140-146: one turn of the loop; clip_section runs
\* the extraction tool through the executor.
SplitLoop ==
    /\ pc = "sfv_loop"
    /\ IF LoopContinues(segment_start, duration)
       THEN \E rc \in ExitCodes({final_video}, fs) :
            LET outcome == RunSubprocess(ClipArgs, FALSE, rc) IN
            /\ clips' = Append(clips, [part |-> segment_number, start |-> segment_start,
                                       end |-> segment_end])
            /\ Executor("clip", ClipArgs, FALSE, rc)
            /\ IF outcome = "returned"
               THEN /\ parts' = parts \cup {segment_number}
                    /\ segment_number' = segment_number + 1
                    /\ segment_start' = next_start
                    /\ next_start' = NextStart(segment_start', cfg.segment_length)
                    /\ segment_end' = SegmentEnd(next_start', cfg.segment_extra)
                    /\ Continue("sfv_loop")
               ELSE /\ Terminate(IF outcome = "exit" THEN "exit1" ELSE "uncaught",
                                 IF outcome = "exit" THEN "CalledProcessError" ELSE outcome)
                    /\ UNCHANGED <<parts, segment_number, segment_start, next_start,
                                   segment_end>>
       ELSE /\ Continue("sfv_report")
            /\ UNCHANGED <<execVars, clips, parts, segment_number, segment_start, next_start,
                           segment_end>>
    /\ UNCHANGED <<cfg, fs0, parts0, fs, swallowed, guardVars, mergeVars, success, probed, duration,
                   total>>

\* split_final_video, line 147: the report, and the normal end of the run.
SplitReport ==
    /\ pc = "sfv_report"
    /\ total' = segment_number - 1
    /\ Terminate("ok", "none")
    /\ UNCHANGED <<cfg, fs0, parts0, fs, swallowed, execVars, guardVars, mergeVars, success, probed,
                   duration, segment_start, next_start, segment_end, segment_number, clips,
                   parts>>

Next ==
    \/ Main
    \/ SplitFinalVideoGuard
    \/ CreateFinalVideoMergeGuard
    \/ MergeVideosGlob
    \/ MergeVideosFilter
    \/ MergeVideosSmartMerge
    \/ MergeVideosConcat
    \/ CreateFinalVideoDanmaku
    \/ AddDanmakuAssert
    \/ AddDanmakuAssGuard
    \/ CreateAssXmlGuard
    \/ CreateXmlDanmaku
    \/ CreateAssWarn
    \/ CreateAssConvert
    \/ CreateAssOffset
    \/ AddDanmakuSuccess
    \/ AddDanmakuBurn
    \/ SplitCheck
    \/ SplitProbe
    \/ SplitLoop
    \/ SplitReport

Spec == Init /\ [][Next]_vars

\* The splitter on its own: the states in which split_final_video has found
\* the final video on disk (line 127 skipped create_final_video), for every
\* configuration main can build.
SplitInit ==
    /\ cfg \in { Config([ReadConfigFile(RawDefaults, json, ".") EXCEPT !.directory = dir]) :
                    json \in { c \in Configs :
                                 <<c.initial_segment_length, c.segment_length,
                                   c.segment_extra>> \in SplitConfigs },
                    dir \in CliDirs }
    /\ fs0 = {final_video}
    /\ parts0 = {}
    /\ fs = fs0
    /\ pc = "sfv_split"
    /\ status = "running"
    /\ error = "none"
    /\ swallowed = <<>>
    /\ calls = <<>>
    /\ runs = <<>>
    /\ guards = [ g \in GuardSites |-> IF g = "final" THEN "present" ELSE "none" ]
    /\ producers = [ g \in GuardSites |-> 0 ]
    /\ files = <<>>
    /\ filtered = <<>>
    /\ smartMerge = <<>>
    /\ success = TRUE
    /\ probed = "no"
    /\ duration = 0
    /\ segment_start = 0
    /\ next_start = 0
    /\ segment_end = 0
    /\ segment_number = 0
    /\ clips = <<>>
    /\ parts = {}
    /\ total = -1

SplitNext ==
    \/ SplitCheck
    \/ SplitProbe
    \/ SplitLoop
    \/ SplitReport

\* The program is sequential and every external tool it waits for ends: a
\* step that can be taken is taken.
SplitSpec == SplitInit /\ [][SplitNext]_vars /\ WF_vars(SplitNext)

\* ===================================================================== claims
\* C1: the intervals handed to clip_section: the first is [0, I+O], every
\* later one has length S+O and starts at the nominal end (end minus O) of
\* the one before it; parts are cut only when I + O < D.
C1_SplitIntervals ==
    LET I == cfg.initial_segment_length
        S == cfg.segment_length
        O == cfg.segment_extra
    IN  /\ clips # <<>> => I + O < duration
        /\ \A k \in 1..Len(clips) :
              IF k = 1
              THEN clips[k].start = 0 /\ clips[k].end = I + O
              ELSE /\ clips[k].end - clips[k].start = S + O
                   /\ clips[k].start = clips[k - 1].end - O

\* C1 witness: a first part and two steady parts have been cut.
C1_Witness == Len(clips) >= 3 /\ cfg.segment_extra > 0

\* C2: when the split has run to its end, the nominal spans
\* [start_k, end_k - O) start at 0, each starts where the one before ended,
\* and the last one ends at or after D.
C2_NominalCoverage ==
    LET O == cfg.segment_extra
        n == Len(clips)
    IN  pc = "sfv_report" =>
            /\ n >= 1
            /\ clips[1].start = 0
            /\ \A k \in 2..n : clips[k].start = clips[k - 1].end - O
            /\ clips[n].end - O >= duration

\* C2 witness: a finished split of two or more parts whose last nominal span
\* reaches beyond D.
C2_Witness ==
    /\ pc = "sfv_report"
    /\ Len(clips) >= 2
    /\ clips[Len(clips)].end - cfg.segment_extra > duration

\* C3: once the duration is probed, clip_section is never called if
\* I + O >= D (the run ends normally with the final video as the only
\* deliverable), and a run that has ended with I + O < D has called it.
C3_NoSplitIffCovered ==
    LET covered == cfg.initial_segment_length + cfg.segment_extra >= duration
    IN  probed = "exists" =>
            /\ covered => /\ clips = <<>>
                          /\ parts = {}
                          /\ status = "ok"
                          /\ total = -1
                          /\ final_video \in fs
            /\ (status # "running" /\ ~covered) => clips # <<>>

\* C3 witness: the first boundary equals D exactly (D=14403, I=14400, O=3).
C3_Witness ==
    /\ probed = "exists"
    /\ duration = 14403
    /\ cfg.initial_segment_length + cfg.segment_extra = duration
    /\ status = "ok"
    /\ clips = <<>>

\* C4: parts are numbered 1, 2, ... in the order cut, never more than
\* N = 1 + ceil((D - I) / S) of them; a split that runs to its end has cut
\* exactly N >= 2 parts, written part1 .. partN, and reports N.
C4_PartCount ==
    LET I == cfg.initial_segment_length
        S == cfg.segment_length
        N == 1 + ((duration - I + S - 1) \div S)
    IN  /\ \A k \in 1..Len(clips) : clips[k].part = k
        /\ \A k \in 2..Len(clips) : clips[k - 1].start < clips[k].start
        /\ clips # <<>> => Len(clips) <= N
        /\ parts \subseteq 1..Len(clips)
        /\ pc = "sfv_report" => Len(clips) = N /\ parts = 1..N /\ N >= 2
        /\ total # -1 => total = N /\ Len(clips) = N /\ parts = 1..N

\* C4 witness: D=18000, I=14400, S=3600, O=3 gives [0,14403] and
\* [14400,18003], total 2.
C4_Witness ==
    /\ total = 2
    /\ duration = 18000
    /\ clips = << [part |-> 1, start |-> 0, end |-> 14403],
                  [part |-> 2, start |-> 14400, end |-> 18003] >>

\* The tools that have been run, in order.
Tools == { calls[i].tool : i \in DOMAIN calls }

\* Where each guarded producer starts.
EntryPc(site) ==
    CASE site = "final" -> "cfv_merge_guard"
      [] site = "merged" -> "mv_glob"
      [] site = "ass" -> "cad_xml_guard"
      [] site = "xml" -> "cxd"

\* C5: a guard that found its artifact never enters its producer; a guard
\* that found it absent enters the producer exactly once.  With the merged
\* video on disk before the run the concat tool is never run and the run
\* goes on past the merge; with the final video on disk before the run no
\* merge, converter, offset or burn-in is run.
C5_GuardedStages ==
    /\ \A g \in GuardSites :
          /\ guards[g] \in {"none", "present"} => producers[g] = 0
          /\ guards[g] = "absent" => producers[g] = IF pc = EntryPc(g) THEN 0 ELSE 1
    /\ "merged_video" \in fs0 =>
          /\ "concat" \notin Tools
          /\ pc \notin {"mv_glob", "mv_filter", "mv_smart_merge", "mv_concat"}
          /\ smartMerge = <<>>
    /\ final_video \in fs0 =>
          /\ Tools \subseteq {"clip"}
          /\ \A g \in GuardSites : producers[g] = 0

\* C5 witness: one run in which the merge guard found the merged video and
\* skipped merge_videos, and the xml guard found nothing and entered
\* create_xml_danmaku.
C5_Witness ==
    /\ "merged_video" \in fs0
    /\ guards["final"] = "absent" /\ producers["final"] = 1
    /\ guards["merged"] = "present" /\ producers["merged"] = 0
    /\ guards["xml"] = "absent" /\ producers["xml"] = 1
    /\ status = "ok"

\* C6: merge_videos fails with its explicit error, handing nothing to
\* smart_merge and running no concat, if and only if no fragment is left
\* after the duration filter.
C6_FailsIffNoneLeft ==
    /\ \A i \in DOMAIN smartMerge : smartMerge[i] # <<>>
    /\ (pc = "halt" /\ producers["merged"] = 1 /\ error = "AssertionError")
           <=> (pc = "halt" /\ producers["merged"] = 1
                  /\ KeptFrom(files, cfg.ignore_video_length, 1) = <<>>)

\* C7: every list handed to smart_merge holds exactly the fragments found
\* whose duration is at least ignore_video_length, each once.
C7_FilterExact ==
    \A i \in DOMAIN smartMerge :
        LET handed == smartMerge[i] IN
        /\ { handed[j] : j \in DOMAIN handed }
               = { k \in DOMAIN files : files[k] >= cfg.ignore_video_length }
        /\ \A j, l \in DOMAIN handed : j # l => handed[j] # handed[l]

\* C7 witness: of the fragments found, some shorter than the threshold were
\* dropped and one exactly as long as the threshold was handed on.
C7_Witness ==
    /\ smartMerge # <<>>
    /\ \E k \in DOMAIN files : files[k] < cfg.ignore_video_length
    /\ \E j \in DOMAIN smartMerge[1] : files[smartMerge[1][j]] = cfg.ignore_video_length

\* C8: with danmaku requested, the merged video there and neither final
\* video, subtitle track nor raw comment file on disk, a run that has ended
\* has ended in a fatal error naming the missing danmaku capability, with no
\* danmaku video and no call of clip_section.
C8_MissingDanmakuIsFatal ==
    ( /\ cfg.add_danmaku
      /\ "merged_video" \in fs0
      /\ fs0 \cap {"video_with_danmaku", "ass_file", "xml_file"} = {}
      /\ status # "running" )
    => /\ status \in {"exit1", "uncaught"}
       /\ error \in {"NotImplementedError", "FileNotFoundError"}
       /\ "video_with_danmaku" \notin fs
       /\ clips = <<>>

\* C9: an external tool that ends with a non-zero status is the last one
\* run: run_subprocess does not return, the process has ended by exit(1).
C9_FailFast ==
    \A i \in DOMAIN calls :
        calls[i].rc # 0 =>
            /\ i = Len(calls)
            /\ ~calls[i].returned
            /\ pc = "halt"
            /\ status = "exit1"

\* C9 witness: the subtitle converter was run after an earlier tool
\* succeeded, and failed.
C9_Witness ==
    /\ Len(calls) = 2
    /\ calls[1].rc = 0
    /\ calls[2].rc # 0
    /\ status = "exit1"

\* C10: split_final_video probes and clips only a final video that exists.
C10_SplitOnlyExistingFinal ==
    /\ pc \in {"sfv_probe", "sfv_loop"} => final_video \in fs
    /\ probed # "missing"

\* C11: when the guard of line 100 found no subtitle track and the guard of
\* line 64 found no raw comment file, add_danmaku_to_video never reaches its
\* burn-in and ends in the 'No danmaku file found' error (FileNotFoundError).
C11_OverlaySkipped ==
    (guards["ass"] = "absent" /\ guards["xml"] = "absent") =>
        /\ pc # "adv_burn"
        /\ pc \in {"sfv_split", "sfv_probe", "sfv_loop", "sfv_report", "halt"} =>
               \E i \in DOMAIN swallowed : swallowed[i] = "FileNotFoundError"

\* C12: a part file that was on disk before the run is not extracted again.
C12_ExistingPartKept ==
    \A i \in DOMAIN clips : clips[i].part \notin parts0

\* C13: the argument vector run_subprocess goes on with after its conversion
\* holds no number, int or float.
C13_NoNumericArgument ==
    \A i \in DOMAIN runs :
        \A j \in DOMAIN runs[i].argv : runs[i].argv[j] \notin {"int", "float"}

\* C14: every call of run_subprocess ends the way it would have ended with
\* the echo flag the other way round.
C14_EchoHasNoEffect ==
    \A i \in DOMAIN runs : runs[i].outcome = runs[i].flipped

\* C15: in every state, and so in every state after main has finalized the
\* configuration, final_video is video_with_danmaku if add_danmaku is set
\* and merged_video otherwise, both resolved against the directory, which
\* after main is the one given on the command line.
C15_FinalVideoFollowsToggle ==
    /\ cfg.final_video = IF cfg.add_danmaku THEN cfg.video_with_danmaku ELSE cfg.merged_video
    /\ cfg.merged_video = <<cfg.directory, "merged.flv">>
    /\ cfg.video_with_danmaku = <<cfg.directory, "video_with_danmaku.flv">>
    /\ pc # "main" => cfg.directory \in CliDirs

\* C15 witness: a run with danmaku requested has ended, its final video still
\* the danmaku video in the directory of the command line.
C15_Witness ==
    /\ pc = "halt"
    /\ status = "ok"
    /\ cfg.add_danmaku
    /\ cfg.final_video = <<"cli_dir", "video_with_danmaku.flv">>

\* The place of a tool in the pipeline.
Rank(tool) ==
    CASE tool = "concat" -> 1
      [] tool = "danmaku2ass" -> 2
      [] tool = "offset" -> 3
      [] tool = "burn" -> 4
      [] tool = "clip" -> 5

\* C16: the calls of the executor come in pipeline order: concat, converter,
\* offset, burn-in, then the clips; only clips repeat; the danmaku tools are
\* called only with add_danmaku set, the offset only right after the
\* converter; every clip_section call is one executor call.
C16_StageOrder ==
    /\ \A i, j \in DOMAIN runs :
          i < j => /\ Rank(runs[i].tool) <= Rank(runs[j].tool)
                   /\ Rank(runs[i].tool) = Rank(runs[j].tool) => runs[i].tool = "clip"
    /\ \A i \in DOMAIN runs :
          /\ runs[i].tool \in {"danmaku2ass", "offset", "burn"} => cfg.add_danmaku
          /\ runs[i].tool = "offset" => i > 1 /\ runs[i - 1].tool = "danmaku2ass"
    /\ Cardinality({ i \in DOMAIN runs : runs[i].tool = "clip" }) = Len(clips)

\* C16 witness: converter, offset and burn-in were called, in that order.
C16_Witness ==
    /\ Len(runs) = 3
    /\ runs[1].tool = "danmaku2ass"
    /\ runs[2].tool = "offset"
    /\ runs[3].tool = "burn"

\* C17: while the split loop runs, each turn moves the running start forward,
\* after the first part by exactly segment_length; the report is reached only
\* with the start no longer below D; and the loop always ends.
C17_SplitLoopTerminates ==
    /\ [][ (pc = "sfv_loop" /\ pc' = "sfv_loop") =>
              /\ segment_start' > segment_start
              /\ segment_number > 1 => segment_start' = segment_start + cfg.segment_length ]_vars
    /\ [](pc = "sfv_report" => segment_start >= duration)
    /\ (pc = "sfv_loop") ~> (pc = "halt")

\* C17 witness: a loop of three or more turns has ended and reported.
C17_Witness ==
    /\ total # -1
    /\ Len(clips) >= 3
    /\ cfg.segment_length >= 1

\* The end of a part, clamped to the duration as the extraction tool does.
Clamped(end, d) == IF end > d THEN d ELSE end

\* C18: every part starts before D and, after the first, the part before it
\* ends (clamped to D) strictly before D, so that no part holds only seconds
\* the part before it already holds.
C18_NoOverlapOnlyPart ==
    \A k \in DOMAIN clips :
        /\ clips[k].start < duration
        /\ k > 1 => Clamped(clips[k - 1].end, duration) < duration

====
